---- MODULE Spec2Model ----
(***************************************************************************)
(* VPSA cyclic-steady-state column simulator (PSAloop_MTC.py): the cycle   *)
(* driver simulate_css, the step wrapper simulate_step, the pieces of      *)
(* build_model that select boundary conditions and lay out the state and   *)
(* its derivative, the numeric isotherm, and the mesh sweep of __main__.   *)
(*                                                                         *)
(* Floating-point values are modelled in fixed point.  A state entry, a    *)
(* loading, a concentration or a mole fraction v is the integer v * FX     *)
(* (FX = 10^4); pressures in Pa are plain integers; an err value e is the  *)
(* integer e * ERRFX (ERRFX = 10^6).  Every operator below computes what   *)
(* the source line computes, rounded down to that resolution.              *)
(***************************************************************************)
EXTENDS Integers, Sequences, FiniteSets, TLC

\* ---------------------------------------------------------------- numbers

\* resolution of a fixed-point real
FX == 10^4

\* resolution of an err value
ERRFX == 10^6

Abs(a) == IF a < 0 THEN -a ELSE a

Max2(a, b) == LET va == a
                  vb == b
              IN  IF va >= vb THEN va ELSE vb

RECURSIVE Pow10(_)
Pow10(k) == IF k = 0 THEN 1 ELSE 10 * Pow10(k - 1)

\* floor(a * 10^k / c) for a >= 0, c > 0, by long division (no wide product)
RECURSIVE FracDiv(_, _, _)
FracDiv(a, c, k) ==
    IF k = 0 THEN a \div c
    ELSE (a \div c) * Pow10(k) + FracDiv((a % c) * 10, c, k - 1)

\* floor(a * b / FX) for a, b >= 0, by limbs (no wide product)
FxMulNat(a, b) ==
    LET a1 == a \div FX
        a0 == a % FX
        b1 == b \div FX
        b0 == b % FX
    IN  a1 * b1 * FX + a1 * b0 + a0 * b1 + (a0 * b0) \div FX

\* a * b / FX for signed a, b (rounded toward zero)
FxMul(a, b) ==
    LET m == FxMulNat(Abs(a), Abs(b))
    IN  IF (a < 0) = (b < 0) THEN m ELSE -m

\* floor(sqrt(n)) by bisection on [lo, hi], lo*lo <= n < (hi+1)*(hi+1)
RECURSIVE IsqrtIn(_, _, _)
IsqrtIn(n, lo, hi) ==
    IF lo >= hi THEN lo
    ELSE LET mid == (lo + hi + 1) \div 2
         IN  IF mid * mid <= n THEN IsqrtIn(n, mid, hi)
             ELSE IsqrtIn(n, lo, mid - 1)

Isqrt(n) == IsqrtIn(n, 0, 46340)

\* exp(f) * FX for 0 <= f < FX (a fraction), by its Taylor series:
\* term k+1 is term k * f / (k+1)
RECURSIVE ExpFracFrom(_, _, _)
ExpFracFrom(f, term, k) ==
    IF term = 0 THEN 0
    ELSE term + ExpFracFrom(f, FxMulNat(term, f) \div k, k + 1)

ExpFrac(f) == ExpFracFrom(f, FX, 1)

\* e * FX
EulerFx == ExpFracFrom(FX, FX, 1)

\* exp(n) as a decimal float <<m, d>> meaning m * 10^d / FX, m kept below 10^7:
\* multiply by e, n times, dropping a digit whenever the mantissa grows past 10^7
RECURSIVE ExpTimesE(_, _, _)
ExpTimesE(m, d, n) ==
    IF n = 0 THEN <<m, d>>
    ELSE LET p == FxMulNat(m, EulerFx)
         IN  IF p >= 10^7 THEN ExpTimesE(p \div 10, d + 1, n - 1)
             ELSE ExpTimesE(p, d, n - 1)

\* exp(z) for a fixed-point z >= 0, as the decimal float <<m, d>> = m * 10^d / FX
ExpFloat(z) == ExpTimesE(ExpFrac(z % FX), 0, z \div FX)

\* c * exp(z) where c is given in units of 10^-10 and the result is wanted in
\* units of 10^-6 (the Langmuir affinities b0, d0, b1)
AffinityMicro(c, z) ==
    LET e == ExpFloat(z)
        \* c*1e-10 * m*10^d/FX = c*m*10^d * 1e-14 ; in micro: c*m*10^d * 1e-8
        cm == FxMulNat(c, e[1])          \* c*m*1e-4
    IN  IF e[2] >= 4 THEN cm * Pow10(e[2] - 4) ELSE cm \div Pow10(4 - e[2])

\* ------------------------------------------------- setup_parameters (units)

\* pressure scaling factor, Pa
P_scale == 100000

\* gas constant, in 10^-3 J/(mol K)
R_gas == 8314

\* dual-site Langmuir, CO2: capacities in 10^-4 mol/kg, pre-exponentials in
\* 10^-10 m3/mol, internal energies in 10^-2 J/mol
q_sb0 == 30900

b0_0 == 8650

dU_b0 == -3664121

q_sd0 == 25400

d0_0 == 263

dU_d0 == -3569066

\* dual-site Langmuir, N2
q_sb1 == 58400

b0_1 == 25000

dU_b1 == -1580000

\* R_gas * T in 10^-2 J/mol, for a fixed-point temperature T
RT(T) == (R_gas * (T \div 100)) \div 1000

\* num / den in 10^-6, for 0 <= num <= den: both lose a digit while the long
\* division of FracDiv would not fit
RECURSIVE Ratio6(_, _)
Ratio6(num, den) ==
    IF den >= 10^8 THEN Ratio6(num \div 10, den \div 10)
    ELSE FracDiv(num, den, 6)

\* q_s * (num / den) for a capacity q_s (fixed point) and num, den in 10^-6
LangmuirTerm(q_s, num, den) == FxMulNat(q_s, Ratio6(num, den)) \div 100

\* get_isotherm: equilibrium loadings <<q0, q1>> from the total concentration
\* c_total (mol/m3), the CO2 mole fraction and the temperature, all fixed point
get_isotherm(c_total, y_co2, T) ==
    LET c0 == FxMulNat(c_total, y_co2)
        c1 == FxMulNat(c_total, FX - y_co2)
        b0 == AffinityMicro(b0_0, FracDiv(-dU_b0, RT(T), 4))
        d0 == AffinityMicro(d0_0, FracDiv(-dU_d0, RT(T), 4))
        b1 == AffinityMicro(b0_1, FracDiv(-dU_b1, RT(T), 4))
        denom1 == 10^6 + FxMulNat(b0, c0) + FxMulNat(b1, c1)
        denom2 == 10^6 + FxMulNat(d0, c0)
        q0 == LangmuirTerm(q_sb0, FxMulNat(b0, c0), denom1)
              + LangmuirTerm(q_sd0, FxMulNat(d0, c0), denom2)
        q1 == LangmuirTerm(q_sb1, FxMulNat(b1, c1), denom1)
    IN  <<q0, q1>>

\* get_isotherm_numeric without the conversion of its first argument: the
\* number is used as the total concentration
get_isotherm_numeric_unconverted(P, y_co2, T) ==
    LET c_total == P
        c0 == FxMulNat(c_total, y_co2)
        c1 == FxMulNat(c_total, FX - y_co2)
        b0 == AffinityMicro(b0_0, FracDiv(-dU_b0, RT(T), 4))
        d0 == AffinityMicro(d0_0, FracDiv(-dU_d0, RT(T), 4))
        b1 == AffinityMicro(b0_1, FracDiv(-dU_b1, RT(T), 4))
        denom1 == 10^6 + FxMulNat(b0, c0) + FxMulNat(b1, c1)
        denom2 == 10^6 + FxMulNat(d0, c0)
        q0 == LangmuirTerm(q_sb0, FxMulNat(b0, c0), denom1)
              + LangmuirTerm(q_sd0, FxMulNat(d0, c0), denom2)
        q1 == LangmuirTerm(q_sb1, FxMulNat(b1, c1), denom1)
    IN  <<q0, q1>>

\* get_isotherm_numeric: the same loadings from a pressure P in Pa, which it
\* first turns into a total concentration c_total = P / (R_gas * T)
get_isotherm_numeric(P, y_co2, T) ==
    LET c_total == FracDiv(P * 100, RT(T), 4)
        c0 == FxMulNat(c_total, y_co2)
        c1 == FxMulNat(c_total, FX - y_co2)
        b0 == AffinityMicro(b0_0, FracDiv(-dU_b0, RT(T), 4))
        d0 == AffinityMicro(d0_0, FracDiv(-dU_d0, RT(T), 4))
        b1 == AffinityMicro(b0_1, FracDiv(-dU_b1, RT(T), 4))
        denom1 == 10^6 + FxMulNat(b0, c0) + FxMulNat(b1, c1)
        denom2 == 10^6 + FxMulNat(d0, c0)
        q0 == LangmuirTerm(q_sb0, FxMulNat(b0, c0), denom1)
              + LangmuirTerm(q_sd0, FxMulNat(d0, c0), denom2)
        q1 == LangmuirTerm(q_sb1, FxMulNat(b1, c1), denom1)
    IN  <<q0, q1>>

\* ------------------------------------------------------------- the state

\* mesh sizes swept by __main__
N_values == <<15, 20, 25, 30, 35, 40>>

\* cycle budget __main__ passes to simulate_css
MainCycles == 1000

\* largest mesh size of a direct call of simulate_css
MaxN == 2

\* largest cycle budget of a direct call; no run is followed past this many cycles
MaxCycles == 3

VARIABLES
    caller,      \* who runs simulate_css: __main__ or a direct call with (N, cycles)
    integrator,  \* self.integrator: the behaviour of the external CVODES integrator
    pc,          \* position in the program
    n_idx,       \* __main__: index into N_values of the mesh size being run
    N,           \* self.N of the simulator in use
    cycles,      \* simulate_css: its cycle budget
    i,           \* simulate_css: number of cycles completed (the loop variable)
    step,        \* simulate_css: the next step of the cycle in progress, 0..3
    heap,        \* the numpy arrays of the run, by identity
    x,           \* simulate_css: the array x refers to (0: none)
    x_start,     \* simulate_css: the array x_start refers to (0: none)
    errors,      \* simulate_css: the error history
    calls,       \* log of the integrator calls of the run
    starts,      \* log of the x_start array of every cycle of the run
    stopped,     \* how the cycle loop of the run ended: "break", "exhausted" or ""
    ret,         \* what the last simulate_css call delivered to its caller
    results,     \* __main__: results[n_val]
    printed,     \* __main__: the table rows printed
    isotherm_call,  \* the last evaluation of the two isotherm functions
    f_call,      \* the last evaluation of the right-hand side f of build_model
    ode_vel,     \* NewtonCradle.py: the force constraints of the last time point
    mb_cons      \* FCC.py: the mass-balance constraints of the last riser position

\* the variables simulate_css and __main__ never touch
others == <<isotherm_call, f_call, ode_vel, mb_cons>>

vars == <<caller, integrator, pc, n_idx, N, cycles, i, step, heap, x, x_start,
          errors, calls, starts, stopped, ret, results, printed, isotherm_call,
          f_call, ode_vel, mb_cons>>

\* ------------------------------------------------------- build_model layout

\* the block (0..4) and the cell (0..n-1) of entry k (1..5n) of a vector of
\* five n-length blocks
BlockOf(k, n) == (k - 1) \div n

CellOf(k, n) == (k - 1) % n

\* x[0*N:1*N] .. x[4*N:5*N]: the variable each slice of the state is read as
StateSlices == <<"y", "P_bar", "T", "q0", "q1">>

\* the variable entry k of the state vector is read as, and its cell
StateEntry(k, n) == [var |-> StateSlices[BlockOf(k, n) + 1], cell |-> CellOf(k, n)]

\* RhsStack with the pressure and temperature lists stacked the other way round
RhsStackSwapped == << [of |-> "y", div |-> 1], [of |-> "T", div |-> 1],
                      [of |-> "P", div |-> P_scale], [of |-> "q0", div |-> 1],
                      [of |-> "q1", div |-> 1] >>

\* rhs = vertcat(dy_dt, dP_dt / P_scale, dT_dt, dq0_dt, dq1_dt): for each
\* stacked list, the variable whose time derivative it holds and its divisor
RhsStack == << [of |-> "y", div |-> 1], [of |-> "P", div |-> P_scale],
               [of |-> "T", div |-> 1], [of |-> "q0", div |-> 1],
               [of |-> "q1", div |-> 1] >>

\* the derivative entry k of rhs holds: of which variable, of which cell (the
\* i-th appended element of each list is the one of cell i), and its divisor
RhsEntry(k, n) == [of |-> RhsStack[BlockOf(k, n) + 1].of, cell |-> CellOf(k, n),
                   div |-> RhsStack[BlockOf(k, n) + 1].div]

\* P = P_bar * P_scale: the state variable a physical variable is stored as,
\* and the factor between them
StoredAs(v) == IF v = "P" THEN [var |-> "P_bar", factor |-> P_scale]
               ELSE [var |-> v, factor |-> 1]

\* --------------------------------------------- build_model boundary pressure

\* casadi if_else(c, a, b) on SX: both operands are evaluated and weighted by
\* the truth value of the condition
if_else_zero(c, a) == IF c THEN a ELSE 0

if_else(c, a, b) == if_else_zero(c, a) + if_else_zero(~c, b)

\* step_type < 0.5, step_type < 1.5, step_type < 2.5 for a step code
LtHalf(step_type) == 2 * step_type < 1

\* LtOneHalf with the threshold 0.5
LtOneHalfAsHalf(step_type) == 2 * step_type < 1

LtOneHalf(step_type) == 2 * step_type < 3

LtTwoHalf(step_type) == 2 * step_type < 5

\* exp(-z) * FX for a fixed-point z >= 0
ExpNeg(z) ==
    LET e == ExpFloat(z)
    IN  IF e[2] > 2 THEN 0 ELSE (FX * FX) \div (e[1] * Pow10(e[2]))

\* exp(-lam * t_phys) with lam = 5 / (duration + 1e-3), t_phys = tau * duration
Relaxation(tau, duration) ==
    LET lam == FracDiv(5 * FX, duration + FX \div 1000, 4)
        t_phys == FxMulNat(tau, duration)
    IN  ExpNeg(FxMulNat(lam, t_phys))

P_bound_press(tau, duration, P_low, P_high) ==
    P_high - FxMul(P_high - P_low, Relaxation(tau, duration))

P_bound_blow(tau, duration, P_low, P_high) ==
    P_low + FxMul(P_high - P_low, Relaxation(tau, duration))

P_vac(P_low) == P_low \div 2

P_bound_evac(tau, duration, P_low, P_high) ==
    P_vac(P_low) + FxMul(P_low - P_vac(P_low), Relaxation(tau, duration))

\* the weight (0 or 1) the nested if_else gives each of its four operands
BranchWeights(step_type) ==
    [press |-> if_else(LtHalf(step_type), 1, 0),
     high  |-> if_else(LtHalf(step_type), 0, if_else(LtOneHalf(step_type), 1, 0)),
     blow  |-> if_else(LtHalf(step_type), 0, if_else(LtOneHalf(step_type), 0,
                   if_else(LtTwoHalf(step_type), 1, 0))),
     evac  |-> if_else(LtHalf(step_type), 0, if_else(LtOneHalf(step_type), 0,
                   if_else(LtTwoHalf(step_type), 0, 1)))]

\* P_bound reading the vacuum pressure of the evacuation step from the third
\* entry of u
P_bound_reads_dummy(u, tau) ==
    if_else(LtHalf(u[1]), P_bound_press(tau, u[2], u[4], u[5]),
        if_else(LtOneHalf(u[1]), u[5],
            if_else(LtTwoHalf(u[1]), P_bound_blow(tau, u[2], u[4], u[5]),
                u[3] + FxMul(u[4] - u[3], Relaxation(tau, u[2])))))

\* P_bound of the parameter vector u = [type, duration, dummy, P_L, P_H] at tau
P_bound(u, tau) ==
    if_else(LtHalf(u[1]), P_bound_press(tau, u[2], u[4], u[5]),
        if_else(LtOneHalf(u[1]), u[5],
            if_else(LtTwoHalf(u[1]), P_bound_blow(tau, u[2], u[4], u[5]),
                P_bound_evac(tau, u[2], u[4], u[5]))))

\* the instants of the normalized interval [0, 1] the boundary is sampled at
TauSamples == <<0, FX \div 2, FX>>

\* ------------------------------------------------------ numpy on vectors

\* the largest |v[k]| for k in lo..hi (halving, to keep the recursion shallow)
RECURSIVE MaxAbsIn(_, _, _)
MaxAbsIn(v, lo, hi) ==
    IF lo > hi THEN 0
    ELSE IF lo = hi THEN Abs(v[lo])
    ELSE Max2(MaxAbsIn(v, lo, (lo + hi) \div 2),
              MaxAbsIn(v, (lo + hi) \div 2 + 1, hi))

\* sum over k in lo..hi of (|v[k]| / m)^2, each quotient in 10^-3
RECURSIVE SumSqIn(_, _, _, _)
SumSqIn(v, m, lo, hi) ==
    IF lo > hi THEN 0
    ELSE IF lo = hi THEN FracDiv(Abs(v[lo]), m, 3) * FracDiv(Abs(v[lo]), m, 3)
    ELSE SumSqIn(v, m, lo, (lo + hi) \div 2)
         + SumSqIn(v, m, (lo + hi) \div 2 + 1, hi)

\* np.linalg.norm(v): the 2-norm, computed on the entries scaled by the
\* largest magnitude so that the sum of squares fits
Norm(v) ==
    LET m == MaxAbsIn(v, 1, Len(v))
        r == Isqrt(SumSqIn(v, m, 1, Len(v)))
    IN  IF m = 0 THEN 0
        ELSE (m \div 1000) * r + ((m % 1000) * r) \div 1000

\* x - x_start, entry by entry
VecSub(a, b) == [k \in 1..Len(a) |-> a[k] - b[k]]

\* the value an err too large for the representation is recorded as (>= 2000)
ErrSat == 2000 * ERRFX

\* np.linalg.norm(x - x_start) / (np.linalg.norm(x_start) + 1e-8), in 10^-6.
\* The 1e-8 is below the resolution of a norm: it decides the quotient only
\* when the norm of x_start is 0.
RelErr(xv, xs) ==
    LET nd == Norm(VecSub(xv, xs))
        ns == Norm(xs)
    IN  IF nd = 0 THEN 0
        ELSE IF ns = 0 THEN ErrSat
        ELSE IF nd \div ns >= 2000 THEN ErrSat
        ELSE FracDiv(nd, ns, 6)

\* ------------------------------------------------- the external integrator

\* T_ref, in fixed point
T_ref == 2981500

\* feed mole fraction 0.15 of the boundary cell, in fixed point
y_feed == 1500

\* The behaviours of CVODES the model runs against.  Each is a deterministic
\* function of the call's (x0, p): it returns x0 unchanged ("hold"), the zero
\* vector ("zero"), x0 with every temperature raised by amp/10 ("drift"), or x0
\* moved half way to the end-of-step boundary condition, the temperature
\* target raised by amp during the feed step ("relax").  It fails on a call of
\* step type failType whose first-cell temperature is at least failTemp, on
\* the mesh failN (0: on any mesh).
Behaviours ==
    {[mode |-> "hold", amp |-> 0], [mode |-> "zero", amp |-> 0],
     [mode |-> "drift", amp |-> 10 * FX], [mode |-> "relax", amp |-> 10 * FX],
     [mode |-> "relax", amp |-> 100 * FX]}

Failures ==
    {[failType |-> -1, failTemp |-> 0, failN |-> 0]}
    \cup [failType : 0..3, failTemp : {0, T_ref + 35 * (FX \div 10)},
          failN : {0, N_values[3]}]

IntegratorSet == [beh : Behaviours, fail : Failures]

\* the end-of-step target of entry k of x0 under behaviour "relax"
RelaxTarget(beh, x0, p, k) ==
    LET n == Len(x0) \div 5
        b == BlockOf(k, n)
    IN  CASE b = 0 -> IF p[1] <= 1 THEN y_feed ELSE 0
          [] b = 1 -> FracDiv(P_bound(p, FX), P_scale, 4)
          [] b = 2 -> T_ref + (IF p[1] = 1 THEN beh.amp ELSE 0)
          [] OTHER -> x0[k]

\* res['xf'] of integrator(x0=x0, p=p) when the integration succeeds
IntegratorXf(ig, x0, p) ==
    LET n == Len(x0) \div 5
    IN  CASE ig.beh.mode = "hold" -> x0
          [] ig.beh.mode = "zero" -> [k \in 1..Len(x0) |-> 0]
          [] ig.beh.mode = "drift" ->
                [k \in 1..Len(x0) |->
                    IF BlockOf(k, n) = 2 THEN x0[k] + ig.beh.amp \div 10 ELSE x0[k]]
          [] OTHER ->
                [k \in 1..Len(x0) |->
                    x0[k] + (RelaxTarget(ig.beh, x0, p, k) - x0[k]) \div 2]

\* whether integrator(x0=x0, p=p) raises (CVODES gives up on the step)
IntegratorFails(ig, x0, p) ==
    LET n == Len(x0) \div 5
    IN  /\ ig.fail.failType = p[1]
        /\ ig.fail.failN \in {0, n}
        /\ x0[2 * n + 1] >= ig.fail.failTemp

\* ------------------------------------------------------------ simulate_css

y_init_val == 0

P_init_val == 10000

T_init_val == 2981500

\* InitState with the two loading slices left as np.zeros made them
InitStateZeroLoadings(n) ==
    [k \in 1..5 * n |->
        CASE BlockOf(k, n) = 0 -> y_init_val
          [] BlockOf(k, n) = 1 -> FracDiv(P_init_val, P_scale, 4)
          [] BlockOf(k, n) = 2 -> T_init_val
          [] OTHER -> 0]

\* the initial Column State of simulate_css for a mesh of n cells: np.zeros(5n)
\* with its five slices assigned
InitState(n) ==
    LET eq == get_isotherm_numeric(P_init_val, y_init_val, T_init_val)
    IN  [k \in 1..5 * n |->
            CASE BlockOf(k, n) = 0 -> y_init_val
              [] BlockOf(k, n) = 1 -> FracDiv(P_init_val, P_scale, 4)
              [] BlockOf(k, n) = 2 -> T_init_val
              [] BlockOf(k, n) = 3 -> eq[1]
              [] OTHER -> eq[2]]

\* design = [20.0, 15.0, 30.0, 40.0]
design == <<20 * FX, 15 * FX, 30 * FX, 40 * FX>>

\* CycleSteps with the blowdown call placed before the feed call
CycleStepsSwapped ==
    << [type_id |-> 0, duration |-> design[1], P_L |-> 10000, P_H |-> 100000],
       [type_id |-> 2, duration |-> design[3], P_L |-> 10000, P_H |-> 100000],
       [type_id |-> 1, duration |-> design[2], P_L |-> 10000, P_H |-> 100000],
       [type_id |-> 3, duration |-> design[4], P_L |-> 10000, P_H |-> 100000] >>

\* the four simulate_step calls of one cycle, in program order
CycleSteps ==
    << [type_id |-> 0, duration |-> design[1], P_L |-> 10000, P_H |-> 100000],
       [type_id |-> 1, duration |-> design[2], P_L |-> 10000, P_H |-> 100000],
       [type_id |-> 2, duration |-> design[3], P_L |-> 10000, P_H |-> 100000],
       [type_id |-> 3, duration |-> design[4], P_L |-> 10000, P_H |-> 100000] >>

\* BelowTolerance with the tolerance 1e-2
BelowToleranceLoose(err) == err < ERRFX \div 100

\* err < 1e-3
BelowTolerance(err) == err < ERRFX \div 1000

\* simulate_step catching the integrator's exception and handing x0 back
simulate_step_swallow(h, x0, type_id, duration, P_L, P_H) ==
    LET p_val == <<type_id, duration, 0, P_L, P_H>>
    IN  IF IntegratorFails(integrator, h[x0], p_val)
        THEN [raised |-> FALSE, failed |-> TRUE, heap |-> Append(h, h[x0]),
              xf |-> Len(h) + 1, p |-> p_val]
        ELSE [raised |-> FALSE, failed |-> FALSE,
              heap |-> Append(h, IntegratorXf(integrator, h[x0], p_val)),
              xf |-> Len(h) + 1, p |-> p_val]

\* simulate_step writing the result into the array it was given (x0[:] = xf)
simulate_step_inplace(h, x0, type_id, duration, P_L, P_H) ==
    LET p_val == <<type_id, duration, 0, P_L, P_H>>
    IN  IF IntegratorFails(integrator, h[x0], p_val)
        THEN [raised |-> TRUE, failed |-> TRUE, heap |-> h, xf |-> 0, p |-> p_val]
        ELSE [raised |-> FALSE, failed |-> FALSE,
              heap |-> [h EXCEPT ![x0] = IntegratorXf(integrator, h[x0], p_val)],
              xf |-> x0, p |-> p_val]

\* simulate_step whose result depends on how many arrays the run has made so
\* far (an integrator that keeps state between calls)
simulate_step_history(h, x0, type_id, duration, P_L, P_H) ==
    LET p_val == <<type_id, duration, 0, P_L, P_H>>
        xf == IntegratorXf(integrator, h[x0], p_val)
    IN  IF IntegratorFails(integrator, h[x0], p_val)
        THEN [raised |-> TRUE, failed |-> TRUE, heap |-> h, xf |-> 0, p |-> p_val]
        ELSE [raised |-> FALSE, failed |-> FALSE,
              heap |-> Append(h, [k \in 1..Len(xf) |-> xf[k] + Len(h)]),
              xf |-> Len(h) + 1, p |-> p_val]

\* simulate_step on the arrays h: the integrator is called on the array x0
\* with p_val = [type_id, duration, 0, P_L, P_H]; it raises, or its result
\* res['xf'].full().flatten() is a new array
simulate_step(h, x0, type_id, duration, P_L, P_H) ==
    LET p_val == <<type_id, duration, 0, P_L, P_H>>
    IN  IF IntegratorFails(integrator, h[x0], p_val)
        THEN [raised |-> TRUE, failed |-> TRUE, heap |-> h, xf |-> 0, p |-> p_val]
        ELSE [raised |-> FALSE, failed |-> FALSE,
              heap |-> Append(h, IntegratorXf(integrator, h[x0], p_val)),
              xf |-> Len(h) + 1, p |-> p_val]

\* lines 232-246: the initial state, the design and the empty error history
css_init ==
    /\ pc = "css_init"
    /\ heap' = <<InitState(N)>>
    /\ x' = 1
    /\ x_start' = 0
    /\ errors' = <<>>
    /\ i' = 0
    /\ step' = 0
    /\ calls' = <<>>
    /\ starts' = <<>>
    /\ stopped' = ""
    /\ pc' = "for_i"
    /\ UNCHANGED others
    /\ UNCHANGED <<caller, integrator, n_idx, N, cycles, ret, results, printed>>

\* css_for_cycle with the loop running while i <= cycles
css_for_cycle_inclusive ==
    /\ pc = "for_i"
    /\ i <= cycles
    /\ i < MaxCycles
    /\ heap' = Append(heap, heap[x])
    /\ x_start' = Len(heap) + 1
    /\ starts' = Append(starts, Len(heap) + 1)
    /\ step' = 0
    /\ pc' = "step"
    /\ UNCHANGED others
    /\ UNCHANGED <<stopped, caller, integrator, n_idx, N, cycles, i, x, errors,
                   calls, ret, results, printed>>

\* lines 248-249: the loop head; a further cycle starts with x_start = x.copy()
css_for_cycle ==
    /\ pc = "for_i"
    /\ i < cycles
    /\ i < MaxCycles
    /\ heap' = Append(heap, heap[x])
    /\ x_start' = Len(heap) + 1
    /\ starts' = Append(starts, Len(heap) + 1)
    /\ step' = 0
    /\ pc' = "step"
    /\ UNCHANGED others
    /\ UNCHANGED <<stopped, caller, integrator, n_idx, N, cycles, i, x, errors, calls,
                   ret, results, printed>>

\* line 248: the cycle budget is exhausted, the loop ends
css_for_exhausted ==
    /\ pc = "for_i"
    /\ i >= cycles
    /\ stopped' = "exhausted"
    /\ pc' = "return"
    /\ UNCHANGED others
    /\ UNCHANGED <<caller, integrator, n_idx, N, cycles, i, step, heap, x,
                   x_start, errors, calls, starts, ret, results, printed>>

\* lines 250-253: the next x = self.simulate_step(x, ...) of the cycle
css_step ==
    /\ pc = "step"
    /\ LET c == CycleSteps[step + 1]
           r == simulate_step(heap, x, c.type_id, c.duration, c.P_L, c.P_H)
       IN  /\ calls' = Append(calls,
                   [p |-> r.p, x0 |-> x, xf |-> r.xf, failed |-> r.failed,
                    cycle |-> i,
                    P_bound |-> [j \in 1..Len(TauSamples) |->
                                    P_bound(r.p, TauSamples[j])]])
           /\ heap' = r.heap
           /\ IF r.raised
              THEN /\ pc' = "raise"
                   /\ UNCHANGED <<x, step>>
              ELSE /\ x' = r.xf
                   /\ step' = step + 1
                   /\ pc' = IF step = 3 THEN "err" ELSE "step"
    /\ UNCHANGED others
    /\ UNCHANGED <<stopped, caller, integrator, n_idx, N, cycles, i, x_start, errors,
                   starts, ret, results, printed>>

\* css_err with the convergence test placed before errors.append(err)
css_err_break_first ==
    /\ pc = "err"
    /\ LET err == RelErr(heap[x], heap[x_start])
       IN  /\ errors' = IF BelowTolerance(err) THEN errors ELSE Append(errors, err)
           /\ stopped' = IF BelowTolerance(err) THEN "break" ELSE stopped
           /\ pc' = IF BelowTolerance(err) THEN "return" ELSE "for_i"
    /\ i' = i + 1
    /\ UNCHANGED others
    /\ UNCHANGED <<caller, integrator, n_idx, N, cycles, step, heap, x, x_start,
                   calls, starts, ret, results, printed>>

\* lines 255-259: the relative change of the cycle, recorded, and the break
css_err ==
    /\ pc = "err"
    /\ LET err == RelErr(heap[x], heap[x_start])
       IN  /\ errors' = Append(errors, err)
           /\ stopped' = IF BelowTolerance(err) THEN "break" ELSE stopped
           /\ pc' = IF BelowTolerance(err) THEN "return" ELSE "for_i"
    /\ i' = i + 1
    /\ UNCHANGED others
    /\ UNCHANGED <<caller, integrator, n_idx, N, cycles, step, heap, x, x_start,
                   calls, starts, ret, results, printed>>

\* line 261: return errors, x
css_return ==
    /\ pc = "return"
    /\ ret' = [kind |-> "value", errors |-> errors, x |-> heap[x]]
    /\ pc' = "returned"
    /\ UNCHANGED others
    /\ UNCHANGED <<stopped, caller, integrator, n_idx, N, cycles, i, step, heap, x,
                   x_start, errors, calls, starts, results, printed>>

\* an exception raised by the integrator leaves simulate_step and simulate_css
\* (neither has a handler) and reaches the caller
css_raise ==
    /\ pc = "raise"
    /\ ret' = [kind |-> "exception"]
    /\ pc' = "raised"
    /\ UNCHANGED others
    /\ UNCHANGED <<stopped, caller, integrator, n_idx, N, cycles, i, step, heap, x,
                   x_start, errors, calls, starts, results, printed>>

\* ----------------------------------------------------------------- callers

\* a direct call of simulate_css ends, by a value or by an exception
call_end ==
    /\ caller.kind = "call"
    /\ pc \in {"returned", "raised"}
    /\ pc' = "done"
    /\ UNCHANGED others
    /\ UNCHANGED <<stopped, caller, integrator, n_idx, N, cycles, i, step, heap, x,
                   x_start, errors, calls, starts, ret, results, printed>>

\* lines 271-274: the next mesh size: a simulator is built, simulate_css called
\* (the previous simulator and the locals of its run are gone)
main_for_mesh ==
    /\ caller.kind = "main"
    /\ pc = "for_n"
    /\ n_idx <= Len(N_values)
    /\ N' = N_values[n_idx]
    /\ cycles' = MainCycles
    /\ ret' = [kind |-> "none"]
    /\ heap' = <<>>
    /\ x' = 0
    /\ x_start' = 0
    /\ errors' = <<>>
    /\ calls' = <<>>
    /\ starts' = <<>>
    /\ stopped' = ""
    /\ i' = 0
    /\ step' = 0
    /\ pc' = "css_init"
    /\ UNCHANGED others
    /\ UNCHANGED <<caller, integrator, n_idx, results, printed>>

\* lines 275-277: the run's result is stored and its table row printed;
\* errs[-1] of an empty history is an IndexError
main_store ==
    /\ caller.kind = "main"
    /\ pc = "returned"
    /\ IF Len(ret.errors) = 0
       THEN /\ pc' = "crashed"
            /\ UNCHANGED <<results, printed, n_idx>>
       ELSE /\ results' = [m \in DOMAIN results \cup {N} |->
                            IF m = N
                            THEN [cycles |-> Len(ret.errors),
                                  final_error |-> ret.errors[Len(ret.errors)],
                                  x |-> ret.x]
                            ELSE results[m]]
            /\ printed' = Append(printed,
                            <<N, Len(ret.errors), ret.errors[Len(ret.errors)]>>)
            /\ n_idx' = n_idx + 1
            /\ pc' = "for_n"
    /\ UNCHANGED others
    /\ UNCHANGED <<stopped, caller, integrator, N, cycles, i, step, heap, x, x_start,
                   errors, calls, starts, ret>>

\* the exception of a run reaches the module level of __main__, which has no
\* try/except around the loop body: the program ends with a traceback
main_uncaught ==
    /\ caller.kind = "main"
    /\ pc = "raised"
    /\ pc' = "crashed"
    /\ UNCHANGED others
    /\ UNCHANGED <<stopped, caller, integrator, n_idx, N, cycles, i, step, heap, x,
                   x_start, errors, calls, starts, ret, results, printed>>

\* lines 279-301: the sweep is over, the figures are drawn from results
main_plot ==
    /\ caller.kind = "main"
    /\ pc = "for_n"
    /\ n_idx > Len(N_values)
    /\ pc' = "done"
    /\ UNCHANGED others
    /\ UNCHANGED <<stopped, caller, integrator, n_idx, N, cycles, i, step, heap, x,
                   x_start, errors, calls, starts, ret, results, printed>>

\* the callers: __main__, or a direct simulate_css(cycles) on VPSA_Robust(N)
Callers ==
    {[kind |-> "main", N |-> 0, cycles |-> 0]}
    \cup [kind : {"call"}, N : 1..MaxN, cycles : 0..MaxCycles]

Init ==
    /\ caller \in Callers
    /\ integrator \in IntegratorSet
    /\ pc = IF caller.kind = "main" THEN "for_n" ELSE "css_init"
    /\ n_idx = 1
    /\ N = caller.N
    /\ cycles = caller.cycles
    /\ i = 0
    /\ step = 0
    /\ heap = <<>>
    /\ x = 0
    /\ x_start = 0
    /\ errors = <<>>
    /\ calls = <<>>
    /\ starts = <<>>
    /\ stopped = ""
    /\ ret = [kind |-> "none"]
    /\ results = <<>>
    /\ printed = <<>>
    /\ isotherm_call = [kind |-> "none"]
    /\ f_call = [kind |-> "none"]
    /\ ode_vel = [kind |-> "none"]
    /\ mb_cons = [kind |-> "none"]

Next ==
    \/ css_init
    \/ css_for_cycle
    \/ css_for_exhausted
    \/ css_step
    \/ css_err
    \/ css_return
    \/ css_raise
    \/ call_end
    \/ main_for_mesh
    \/ main_store
    \/ main_uncaught
    \/ main_plot

Spec == Init /\ [][Next]_vars

\* ------------------------------------------- build_model: the right-hand side

\* a / c and a * 10^k / c for a signed a and c > 0, rounded toward zero
Quot(a, c) == IF a < 0 THEN -((-a) \div c) ELSE a \div c

FracQuot(a, c, k) == IF a < 0 THEN -FracDiv(-a, c, k) ELSE FracDiv(a, c, k)

\* tanh(z) = (1 - exp(-2|z|)) / (1 + exp(-2|z|)), signed, in fixed point; it
\* is 1 to the resolution from |z| = 10 on
Tanh(z) ==
    LET q == IF Abs(z) >= 10 * FX THEN 0 ELSE ExpNeg(2 * Abs(z))
        t == FracDiv(FX - q, FX + q, 4)
    IN  IF z < 0 THEN -t ELSE t

\* column length, m
L == 1

\* bed void fraction, in 10^-2
eps == 37

\* particle radius, in 10^-3 m
r_p == 1

\* solid density, kg/m3
rho_s == 1130

\* gas heat capacity, in 10^-1 J/(mol K)
Cp_g == 307

\* solid heat capacity, J/(kg K)
Cp_s == 1070

\* gas viscosity, in 10^-7 Pa s
mu == 172

\* heats of adsorption of CO2 and N2, in 10^-3 J/mol
DeltaH == <<-36165935, -15800000>>

\* linear-driving-force coefficient, in 10^-8 1/s
k_LDF == 2477876

\* K_darcy = (r_p*2)^2 * eps^3 / (150 * (1-eps)^2 * mu), in 10^-10 m2/(Pa s)
K_darcy == FracDiv((r_p * 2)^2 * eps^3, 150 * (100 - eps)^2 * mu, 9)

\* v_max = 5.0 and v_smooth = 0.1, m/s
v_max == 5 * FX

v_smooth == FX \div 10

\* The slices of the state vector xv of a mesh of n cells.  Cell c of the
\* model (1..n) is cell c-1 of the source; face f of the model (1..n+1) is
\* face f-1 of the source.
y_at(xv, n, c) == xv[c]

\* P = P_bar * P_scale, in Pa
P_at(xv, n, c) == FxMulNat(xv[n + c], P_scale)

T_at(xv, n, c) == xv[2 * n + c]

q0_at(xv, n, c) == xv[3 * n + c]

q1_at(xv, n, c) == xv[4 * n + c]

\* P / (R_gas * T) for a pressure in Pa and a fixed-point temperature
MolarDensity(P, T) == FracDiv(P * 100, RT(T), 4)

\* C_total = P / (R_gas * T) of a cell
C_total_at(xv, n, c) == MolarDensity(P_at(xv, n, c), T_at(xv, n, c))

\* -K_darcy * dP / (dz / parts) with dz = L / n: the Darcy velocity over a
\* pressure difference dP across a cell width (parts = 1) or half of it (2)
DarcyRaw(dP, n, parts) == -Quot(FxMul(K_darcy, dP * n * parts), 100 * L)

\* Saturate with twice the maximum velocity
SaturateWide(v_raw) == FxMul(2 * v_max, Tanh(FracQuot(v_raw, 2 * v_max, 4)))

\* v_max * tanh(v_raw / v_max)
Saturate(v_raw) == FxMul(v_max, Tanh(FracQuot(v_raw, v_max, 4)))

\* v_face[i] of an interior face i = face (1..n-1 in the source's numbering)
v_interior(xv, n, face) ==
    Saturate(DarcyRaw(P_at(xv, n, face + 1) - P_at(xv, n, face), n, 1))

v_in(xv, n, u, tau) ==
    Saturate(DarcyRaw(P_at(xv, n, 1) - P_bound(u, tau), n, 2))

v_out(xv, n, u, tau) ==
    Saturate(DarcyRaw(P_bound(u, tau) - P_at(xv, n, n), n, 2))

v0(xv, n, u, tau) ==
    if_else(LtHalf(u[1]), v_in(xv, n, u, tau),
        if_else(LtOneHalf(u[1]), FX,
            if_else(LtTwoHalf(u[1]), 0, v_in(xv, n, u, tau))))

\* vN with the outlet left open during evacuation
vN_open_evac(xv, n, u, tau) ==
    if_else(LtHalf(u[1]), 0,
        if_else(LtOneHalf(u[1]), v_out(xv, n, u, tau),
            if_else(LtTwoHalf(u[1]), v_out(xv, n, u, tau), v_out(xv, n, u, tau))))

vN(xv, n, u, tau) ==
    if_else(LtHalf(u[1]), 0,
        if_else(LtOneHalf(u[1]), v_out(xv, n, u, tau),
            if_else(LtTwoHalf(u[1]), v_out(xv, n, u, tau), 0)))

\* v_face: the n+1 face velocities
v_face(xv, n, u, tau) ==
    [f \in 1..n + 1 |->
        IF f = 1 THEN v0(xv, n, u, tau)
        ELSE IF f = n + 1 THEN vN(xv, n, u, tau)
        ELSE v_interior(xv, n, f - 1)]

\* phi = 0.5 * (1 + tanh(v / v_smooth)): the weight of the upstream side
phi(v) == (FX + Tanh(FracQuot(v, v_smooth, 4))) \div 2

\* w * a + (1 - w) * b
Blend(w, a, b) == FxMulNat(w, a) + FxMulNat(FX - w, b)

\* yL, TL of cell c: the feed values on the upstream side of the first cell
LeftFace(xv, n, c, phi_l) ==
    IF c = 1
    THEN [y |-> Blend(phi_l, y_feed, y_at(xv, n, c)),
          T |-> Blend(phi_l, T_ref, T_at(xv, n, c))]
    ELSE [y |-> Blend(phi_l, y_at(xv, n, c - 1), y_at(xv, n, c)),
          T |-> Blend(phi_l, T_at(xv, n, c - 1), T_at(xv, n, c))]

\* RightFace with the feed values on the downstream side of the last cell
RightFaceFeed(xv, n, c, phi_r) ==
    IF c = n
    THEN [y |-> Blend(phi_r, y_at(xv, n, c), y_feed),
          T |-> Blend(phi_r, T_at(xv, n, c), T_ref)]
    ELSE [y |-> Blend(phi_r, y_at(xv, n, c), y_at(xv, n, c + 1)),
          T |-> Blend(phi_r, T_at(xv, n, c), T_at(xv, n, c + 1))]

\* yR, TR of cell c: the last cell blends its own value with itself
RightFace(xv, n, c, phi_r) ==
    IF c = n
    THEN [y |-> Blend(phi_r, y_at(xv, n, c), y_at(xv, n, c)),
          T |-> Blend(phi_r, T_at(xv, n, c), T_at(xv, n, c))]
    ELSE [y |-> Blend(phi_r, y_at(xv, n, c), y_at(xv, n, c + 1)),
          T |-> Blend(phi_r, T_at(xv, n, c), T_at(xv, n, c + 1))]

\* ldf_rate taking the equilibrium loading itself as the rate
ldf_rate_no_loading(q_star, q) == Quot(FxMul(k_LDF, q_star), 10^4)

\* rate = k_LDF * (q_star - q)
ldf_rate(q_star, q) == Quot(FxMul(k_LDF, q_star - q), 10^4)

\* the sorption terms from the equilibrium loadings and the two rates:
\* S_mass = -(1-eps)/eps * (rate0 + rate1) and
\* Q_gen = -(DeltaH[0]*rate0 + DeltaH[1]*rate1) * rho_s * (1-eps)/eps, in W/m3
SorptionTerms(q_star, rate0, rate1) ==
    [q_star |-> q_star, rate0 |-> rate0, rate1 |-> rate1,
     S_mass |-> -Quot((100 - eps) * (rate0 + rate1), eps),
     Q_gen |-> -FxMul(FxMul(DeltaH[1], rate0) + FxMul(DeltaH[2], rate1),
                      (rho_s * (100 - eps) * 10) \div eps)]

\* the sorption terms of a cell of loadings q0, q1 whose equilibrium loadings
\* are q_star
SorptionRates(q_star, q0, q1) ==
    SorptionTerms(q_star, ldf_rate(q_star[1], q0), ldf_rate(q_star[2], q1))

\* the sorption terms of cell c
Sorption(xv, n, c) ==
    SorptionRates(get_isotherm(C_total_at(xv, n, c), y_at(xv, n, c), T_at(xv, n, c)),
                  q0_at(xv, n, c), q1_at(xv, n, c))

\* F * Cp_g * T for a molar flux F and a face temperature T, in W/m2
EnergyFlux(F, T) == Quot(FxMul(FxMul(F, T), Cp_g), 10)

\* the balances of cell c, from its sorption terms s, its face values fl, fr
\* and its face velocities vl, vr
Balances(xv, n, c, s, fl, fr, vl, vr) ==
    LET P == P_at(xv, n, c)
        T == T_at(xv, n, c)
        y == y_at(xv, n, c)
        C_total == C_total_at(xv, n, c)
        Fin == FxMul(vl, MolarDensity(P, fl.T))
        Fout == FxMul(vr, MolarDensity(P, fr.T))
        div_m == Quot((Fout - Fin) * n, L)
        div_y == Quot((FxMul(Fout, fr.y) - FxMul(Fin, fl.y)) * n, L)
        Cp_eff == FxMulNat(C_total, eps * Cp_g) \div 1000
                  + ((100 - eps) * rho_s * Cp_s) \div 100
        dT == FracQuot(-Quot((EnergyFlux(Fout, fr.T) - EnergyFlux(Fin, fl.T)) * n, L)
                       + s.Q_gen, Cp_eff, 4)
        RHS_P == -div_m + s.S_mass
        dP == Quot(FxMul(RT(T), RHS_P), 100) + FracQuot(FxMul(P, dT), T, 4)
        S_y == -Quot((100 - eps) * s.rate0, eps)
        dy == FracQuot(-(div_y - FxMul(y, div_m)) + (S_y - FxMul(y, s.S_mass)),
                       C_total, 4)
    IN  [Fin |-> Fin, Fout |-> Fout, y |-> dy, P |-> dP, T |-> dT,
         q0 |-> s.rate0, q1 |-> s.rate1]

\* one pass of the loop over the cells (lines 168-209) for cell c
\* cell c from its face velocities vl, vr, their upstream weights phi_l,
\* phi_r and its sorption terms s
ControlVolumeOf(xv, n, c, vl, vr, phi_l, phi_r, s) ==
    LET fl == LeftFace(xv, n, c, phi_l)
        fr == RightFace(xv, n, c, phi_r)
    IN  [phi_l |-> phi_l, phi_r |-> phi_r,
         yL |-> fl.y, TL |-> fl.T, yR |-> fr.y, TR |-> fr.T,
         q_star |-> s.q_star, d |-> Balances(xv, n, c, s, fl, fr, vl, vr)]

ControlVolume(xv, n, vf, c) ==
    ControlVolumeOf(xv, n, c, vf[c], vf[c + 1], phi(vf[c]), phi(vf[c + 1]),
                    Sorption(xv, n, c))

\* rhs * duration, with rhs = vertcat(dy_dt, dP_dt / P_scale, dT_dt, dq0_dt,
\* dq1_dt) stacked from the derivatives cv of the cells
RhsScaled(cv, n, duration) ==
    [k \in 1..5 * n |->
        LET e == RhsEntry(k, n)
            d == cv[e.cell + 1].d[e.of]
        IN  FxMul(IF e.of = "P" THEN FracQuot(d, e.div, 4) ELSE Quot(d, e.div),
                  duration)]

ControlVolumes(xv, n, vf) == [c \in 1..n |-> ControlVolume(xv, n, vf, c)]

\* rhs is the value of the ode of build_model at the state xv, the parameters
\* u and the normalized time tau
OdeIs(xv, n, u, tau, rhs) ==
    \A vf \in {v_face(xv, n, u, tau)} :
        \A cv \in {ControlVolumes(xv, n, vf)} : RhsScaled(cv, n, u[2]) = rhs

\* simulate_css and __main__ are not running
NoRun ==
    /\ caller = [kind |-> "none", N |-> 0, cycles |-> 0]
    /\ integrator = [beh |-> [mode |-> "hold", amp |-> 0],
                     fail |-> [failType |-> -1, failTemp |-> 0, failN |-> 0]]
    /\ pc = "done"
    /\ n_idx = 1
    /\ N = 0
    /\ cycles = 0
    /\ i = 0
    /\ step = 0
    /\ heap = <<>>
    /\ x = 0
    /\ x_start = 0
    /\ errors = <<>>
    /\ calls = <<>>
    /\ starts = <<>>
    /\ stopped = ""
    /\ ret = [kind |-> "none"]
    /\ results = <<>>
    /\ printed = <<>>

run == <<caller, integrator, pc, n_idx, N, cycles, i, step, heap, x, x_start,
         errors, calls, starts, stopped, ret, results, printed>>

\* largest mesh the right-hand side is evaluated on
MaxCells == 2

\* the values the cells of an evaluated Column State take: mole fractions,
\* scaled pressures and temperatures
MoleFractions == {0, y_feed}

ScaledPressures == {FX \div 10, FX \div 2, FX}

Temperatures == {T_ref, T_ref + 12 * FX}

\* the Column State of n cells with the mole fractions yv, the scaled
\* pressures Pv and the temperature Tv, its loadings at the isotherm
\* equilibrium of each cell (atEq) or zero
ColumnState(n, yv, Pv, Tv, atEq) ==
    [k \in 1..5 * n |->
        LET c == CellOf(k, n) + 1
        IN  CASE BlockOf(k, n) = 0 -> yv[c]
              [] BlockOf(k, n) = 1 -> Pv[c]
              [] BlockOf(k, n) = 2 -> Tv
              [] OTHER ->
                    IF atEq
                    THEN get_isotherm(MolarDensity(FxMulNat(Pv[c], P_scale), Tv),
                                      yv[c], Tv)[BlockOf(k, n) - 2]
                    ELSE 0]

\* the record of one evaluation of the ode on (xv, u, tau)
OdeCall(xv, n, u, tau, vf, cv) ==
    [kind |-> "ode", n |-> n, x |-> xv, u |-> u, tau |-> tau,
     P_bound |-> P_bound(u, tau),
     v_in |-> v_in(xv, n, u, tau), v_out |-> v_out(xv, n, u, tau),
     v_face |-> vf, cv |-> cv, rhs |-> RhsScaled(cv, n, u[2])]

\* the Column States, steps of the cycle and instants the ode is evaluated at
OdeArguments ==
    UNION {
        { [kind |-> "args", n |-> n, x |-> ColumnState(n, yv, Pv, Tv, atEq),
           step |-> k, tau |-> TauSamples[t]] :
            yv \in [1..n -> MoleFractions], Pv \in [1..n -> ScaledPressures],
            Tv \in Temperatures, atEq \in BOOLEAN, k \in 1..Len(CycleSteps),
            t \in 1..Len(TauSamples) } : n \in 1..MaxCells }

\* the integrator evaluates the ode during the simulate_step call of a step
\* of the cycle, on the parameter vector simulate_step passes it
ode_eval ==
    /\ f_call.kind = "args"
    /\ \E s \in {CycleSteps[f_call.step]} :
        \E r \in {simulate_step(<<f_call.x>>, 1, s.type_id, s.duration, s.P_L, s.P_H)} :
        \E vf \in {v_face(f_call.x, f_call.n, r.p, f_call.tau)} :
        \E cv \in {ControlVolumes(f_call.x, f_call.n, vf)} :
            f_call' = OdeCall(f_call.x, f_call.n, r.p, f_call.tau, vf, cv)
    /\ UNCHANGED <<run, isotherm_call, ode_vel, mb_cons>>

OdeInit ==
    /\ NoRun
    /\ isotherm_call = [kind |-> "none"]
    /\ f_call \in OdeArguments
    /\ ode_vel = [kind |-> "none"]
    /\ mb_cons = [kind |-> "none"]

OdeNext == ode_eval

OdeSpec == OdeInit /\ [][OdeNext]_vars

\* ------------------------------------------------------- the two isotherms

\* the pressures (Pa), mole fractions and temperatures the isotherms are
\* evaluated at
IsothermPressures == {0, 4, 40, 100, 1000, 10000, 50000, 100000}

IsothermFractions == {0, 1, y_feed, FX \div 2, FX - 1, FX}

IsothermTemperatures == {T_ref - 25 * FX, T_ref, T_ref + 12 * FX, T_ref + 100 * FX}

\* both isotherms are evaluated for a pressure P: get_isotherm on the total
\* concentration build_model passes it (line 131), get_isotherm_numeric on P
isotherm_eval ==
    /\ isotherm_call.kind = "args"
    /\ isotherm_call' =
          [kind |-> "isotherm", P |-> isotherm_call.P, y |-> isotherm_call.y,
           T |-> isotherm_call.T,
           c_total |-> MolarDensity(isotherm_call.P, isotherm_call.T),
           symbolic |-> get_isotherm(MolarDensity(isotherm_call.P, isotherm_call.T),
                                     isotherm_call.y, isotherm_call.T),
           numeric |-> get_isotherm_numeric(isotherm_call.P, isotherm_call.y,
                                            isotherm_call.T)]
    /\ UNCHANGED <<run, f_call, ode_vel, mb_cons>>

IsothermInit ==
    /\ NoRun
    /\ isotherm_call \in [kind : {"args"}, P : IsothermPressures,
                          y : IsothermFractions, T : IsothermTemperatures]
    /\ f_call = [kind |-> "none"]
    /\ ode_vel = [kind |-> "none"]
    /\ mb_cons = [kind |-> "none"]

IsothermNext == isotherm_eval

IsothermSpec == IsothermInit /\ [][IsothermNext]_vars

\* ------------------------------------------------------- NewtonCradle.py

Balls == {"b1", "b2", "b3"}

\* m.mass = 1.0
mass == 1

\* m.radius = 0.1, in fixed point
radius == FX \div 10

\* m.k_contact = 200.0
k_contact == 200

\* contact_force: Expr_if(overlap > 0, k_contact * overlap, 0) with
\* overlap = 2 * radius - (x[b_right] - x[b_left]), for the positions xs of
\* the balls at a time point
contact_force(xs, b_left, b_right) ==
    LET dist == xs[b_right] - xs[b_left]
        overlap == 2 * radius - dist
    IN  IF overlap > 0 THEN k_contact * overlap ELSE 0

\* force_of with a contact between b1 and b3 added to the balance of b3
force_of_far_contact(xs, b) ==
    CASE b = "b1" -> 0 - contact_force(xs, "b1", "b2")
      [] b = "b2" -> 0 + contact_force(xs, "b1", "b2") - contact_force(xs, "b2", "b3")
      [] b = "b3" -> 0 + contact_force(xs, "b2", "b3") + contact_force(xs, "b1", "b3")
      [] OTHER -> 0

\* the net force of _ode_vel on ball b
force_of(xs, b) ==
    CASE b = "b1" -> 0 - contact_force(xs, "b1", "b2")
      [] b = "b2" -> 0 + contact_force(xs, "b1", "b2") - contact_force(xs, "b2", "b3")
      [] b = "b3" -> 0 + contact_force(xs, "b2", "b3")
      [] OTHER -> 0

\* positions a ball takes at a time point, in fixed point
Positions == {-FX, -2 * radius, -radius, 0, radius \div 2, radius,
              2 * radius - radius \div 10, 2 * radius, FX}

\* the initial conditions x = (-1, 0, 1) and every other placement of the
\* three balls the solver may try at a time point
CradleArguments == [kind : {"args"}, x : [Balls -> Positions]]

\* m.ode_vel at a time point: mass * dvdt[b] == force for the three balls
ode_vel_rule ==
    /\ ode_vel.kind = "args"
    /\ ode_vel' = [kind |-> "constraints", x |-> ode_vel.x,
                   contact |-> [left |-> contact_force(ode_vel.x, "b1", "b2"),
                                right |-> contact_force(ode_vel.x, "b2", "b3")],
                   force |-> [b \in Balls |-> force_of(ode_vel.x, b)],
                   dvdt |-> [b \in Balls |-> Quot(force_of(ode_vel.x, b), mass)]]
    /\ UNCHANGED <<run, isotherm_call, f_call, mb_cons>>

CradleInit ==
    /\ NoRun
    /\ isotherm_call = [kind |-> "none"]
    /\ f_call = [kind |-> "none"]
    /\ ode_vel \in CradleArguments
    /\ mb_cons = [kind |-> "none"]

CradleNext == ode_vel_rule

CradleSpec == CradleInit /\ [][CradleNext]_vars

\* ----------------------------------------------------------------- FCC.py

Lumps == <<"VGO", "DSL", "GAS", "LPG", "DG", "COKE">>

Rxn == <<"r1", "r2", "r3", "r4", "r5", "r6", "r7", "r8", "r9", "r10", "r11",
         "r12", "r13", "r14", "r15">>

\* pre-exponential factors, in 10^-3
data_k0 ==
    [r1 |-> 7957290, r2 |-> 14433400, r3 |-> 1057100, r4 |-> 271917,
     r5 |-> 27253, r6 |-> 399933, r7 |-> 2506, r8 |-> 3095, r9 |-> 48282,
     r10 |-> 1189, r11 |-> 1018, r12 |-> 2031, r13 |-> 3411, r14 |-> 601,
     r15 |-> 2196]

\* activation energies, in 10^-1 J/mol
data_Ea ==
    [r1 |-> 539277, r2 |-> 571866, r3 |-> 534086, r4 |-> 499504,
     r5 |-> 354336, r6 |-> 470145, r7 |-> 677929, r8 |-> 662669,
     r9 |-> 698594, r10 |-> 561944, r11 |-> 663191, r12 |-> 617851,
     r13 |-> 555130, r14 |-> 525482, r15 |-> 530460]

\* riser area (10^-3 m2), riser length (10^-1 m) and feed flow (10^-3 kg/s)
RiserArea == 1815

RiserLength == 325

FeedFlow == 76159

\* Tau_factor = (RiserArea * RiserLength * 5.0) / FeedFlow, in fixed point
Tau_factor == FracDiv(RiserArea * RiserLength * 5, FeedFlow, 3)

\* calc_k = k0 * exp(-Ea / (R_gas * T)) in 10^-6 (m.R_gas is 8.314 as in the
\* PSA model): k0 divided by the decimal float of exp(Ea / (R_gas * T))
calc_k(rxn, T) ==
    LET e == ExpFloat(FracDiv(data_Ea[rxn] * 10, RT(T), 4))
    IN  IF e[2] > 7 THEN 0 ELSE FracDiv(data_k0[rxn], e[1], 7 - e[2])

\* the lump whose concentration drives reaction rxn in reaction_rate_expr
\* (the branches of lines 125-134)
ReactantOf(rxn) ==
    CASE rxn \in {"r1", "r2", "r3", "r4", "r5"} -> "VGO"
      [] rxn \in {"r6", "r7", "r8", "r9"} -> "DSL"
      [] rxn \in {"r10", "r11", "r12"} -> "GAS"
      [] rxn \in {"r13", "r14"} -> "LPG"
      [] rxn = "r15" -> "DG"
      [] OTHER -> "none"

\* eps = 1e-8 of reaction_rate_expr at the resolution of a mass fraction
eps_rate == FX \div 10^8

\* reaction_rate_expr: k_val * phi * (y[VGO]^2 + eps) for r1..r5 and
\* k_val * phi * (y[lump] + eps) for the others, in 10^-6, for the mass
\* fractions yv, the temperature T and the activity phi_z of a riser position
reaction_rate_expr(yv, T, phi_z, rxn) ==
    LET k_phi == FxMulNat(calc_k(rxn, T), phi_z)
    IN  CASE ReactantOf(rxn) = "VGO" ->
                FxMulNat(k_phi, FxMulNat(yv["VGO"], yv["VGO"]) + eps_rate)
          [] ReactantOf(rxn) = "none" -> 0
          [] OTHER -> FxMulNat(k_phi, yv[ReactantOf(rxn)] + eps_rate)

\* the reactions summed into cons in the branch of _mass_balance for comp
cons_of(comp) ==
    CASE comp = "VGO" -> <<"r1", "r2", "r3", "r4", "r5">>
      [] comp = "DSL" -> <<"r6", "r7", "r8", "r9">>
      [] comp = "GAS" -> <<"r10", "r11", "r12">>
      [] comp = "LPG" -> <<"r13", "r14">>
      [] comp = "DG" -> <<"r15">>
      [] OTHER -> <<>>

\* gen_of with r13 left out of the generation of DG
gen_of_without_r13(comp) ==
    CASE comp = "DSL" -> <<"r1">>
      [] comp = "GAS" -> <<"r2", "r6">>
      [] comp = "LPG" -> <<"r3", "r7", "r10">>
      [] comp = "DG" -> <<"r4", "r8", "r11">>
      [] comp = "COKE" -> <<"r5", "r9", "r12", "r14", "r15">>
      [] OTHER -> <<>>

\* the reactions summed into gen in the branch of _mass_balance for comp
gen_of(comp) ==
    CASE comp = "DSL" -> <<"r1">>
      [] comp = "GAS" -> <<"r2", "r6">>
      [] comp = "LPG" -> <<"r3", "r7", "r10">>
      [] comp = "DG" -> <<"r4", "r8", "r11", "r13">>
      [] comp = "COKE" -> <<"r5", "r9", "r12", "r14", "r15">>
      [] OTHER -> <<>>

\* the sum of the rates of the reactions of a list, from its k-th entry on
RECURSIVE SumRates(_, _, _)
SumRates(rate, list, k) ==
    IF k > Len(list) THEN 0 ELSE rate[list[k]] + SumRates(rate, list, k + 1)

\* rate_net = gen - cons of _mass_balance for comp, from the rates of the
\* fifteen reactions at the riser position
rate_net_of(rate, comp) == SumRates(rate, gen_of(comp), 1) - SumRates(rate, cons_of(comp), 1)

\* riser positions constraints are built for: 0 (skipped) .. MaxPoints
MaxPoints == 1

\* the mass fractions, temperatures (700, 850, 1000 K) and activities the
\* solver may try at a riser position
RiserFractions ==
    [VGO : {0, FX \div 2, FX}, DSL : {0, FX \div 10}, GAS : {0, 3 * (FX \div 10)},
     LPG : {0, FX \div 10}, DG : {0, FX \div 20}, COKE : {0, FX \div 20}]

RiserTemperatures == {700 * FX, 850 * FX, 1000 * FX}

RiserActivities == {FX \div 2, FX}

RiserArguments ==
    [kind : {"args"}, z : 0..MaxPoints, y : RiserFractions, T : RiserTemperatures,
     Phi : RiserActivities]

\* m.mb_cons at a riser position z: skipped at z = 0, otherwise
\* dy_dz[z, comp] == rate_net * Tau_factor for the six lumps
mass_balance_rule ==
    /\ mb_cons.kind = "args"
    /\ IF mb_cons.z = 0
       THEN mb_cons' = [kind |-> "skip", z |-> mb_cons.z]
       ELSE \E rate \in {[r \in {Rxn[k] : k \in 1..Len(Rxn)} |->
                            reaction_rate_expr(mb_cons.y, mb_cons.T, mb_cons.Phi, r)]} :
              mb_cons' =
                 [kind |-> "constraints", z |-> mb_cons.z, y |-> mb_cons.y,
                  T |-> mb_cons.T, Phi |-> mb_cons.Phi, rate |-> rate,
                  rate_net |-> [k \in 1..Len(Lumps) |-> rate_net_of(rate, Lumps[k])],
                  dy_dz |-> [k \in 1..Len(Lumps) |->
                                FxMul(rate_net_of(rate, Lumps[k]), Tau_factor)]]
    /\ UNCHANGED <<run, isotherm_call, f_call, ode_vel>>

RiserInit ==
    /\ NoRun
    /\ isotherm_call = [kind |-> "none"]
    /\ f_call = [kind |-> "none"]
    /\ ode_vel = [kind |-> "none"]
    /\ mb_cons \in RiserArguments

RiserNext == mass_balance_rule

RiserSpec == RiserInit /\ [][RiserNext]_vars

\* ------------------------------------------------------------------ claims

\* the last entry of a non-empty sequence
Last(q) == q[Len(q)]

\* the run in progress has reached a cycle boundary or has returned
AtCycleBoundary == pc \in {"for_i", "return", "returned"}

\* C1: every cycle of simulate_css is exactly four integrator calls of step
\* types 0, 1, 2, 3 in that order, with durations 20, 15, 30, 40 and pressure
\* bounds (1e4, 1e5); the first call of a cycle takes the state at the start
\* of the cycle and every later call takes the array the call before returned.
C1_CycleIsFourChainedSteps ==
    /\ \A k \in 1..Len(calls) :
          LET c == calls[k]
              t == (k - 1) % 4
          IN  /\ c.p[1] = t
              /\ c.p[2] = <<200000, 150000, 300000, 400000>>[t + 1]
              /\ c.p[4] = 10000
              /\ c.p[5] = 100000
              /\ c.cycle = (k - 1) \div 4
              /\ k > 1 => c.x0 = calls[k - 1].xf
              /\ t = 0 => /\ heap[c.x0] = heap[starts[c.cycle + 1]]
                          /\ k = 1 => heap[c.x0] = heap[1]
    /\ AtCycleBoundary => Len(calls) = 4 * i
    /\ pc = "err" => Len(calls) = 4 * i + 4
    /\ pc = "step" => Len(calls) = 4 * i + step

\* C1 witness: two whole cycles have been integrated
C1_Witness == pc = "for_i" /\ i = 2 /\ Len(calls) = 8

\* C2: simulate_css stops at the first cycle whose err is strictly below 1e-3:
\* no integrator call follows that cycle, the state returned is the state at
\* the end of that cycle, and a cycle with err >= 1e-3 does not end the run
\* while cycle budget remains.
C2_StopsAtFirstConvergedCycle ==
    /\ \A c \in 1..Len(errors) :
          /\ Len(calls) >= 4 * c
          /\ errors[c] = RelErr(heap[calls[4 * c].xf], heap[starts[c]])
          /\ c < Len(errors) => errors[c] >= 1000
    /\ (Len(errors) > 0 /\ Last(errors) < 1000) =>
          /\ pc \notin {"for_i", "step", "err", "raise", "raised"}
          /\ Len(calls) = 4 * Len(errors)
    /\ (pc = "returned" /\ Len(errors) > 0) =>
          /\ ret.x = heap[calls[4 * Len(errors)].xf]
          /\ Last(errors) >= 1000 => Len(errors) = cycles

\* C2 witness: a run that stopped by convergence in its second cycle, with
\* cycle budget left
C2_Witness ==
    /\ pc = "returned"
    /\ Len(errors) = 2
    /\ Last(errors) < 1000
    /\ cycles > 2

\* the position of a run of simulate_css, counted in program steps: every
\* step of the run moves it forward
RunPosition ==
    CASE pc = "css_init" -> 0
      [] pc = "for_i"    -> 7 * i + 1
      [] pc = "step"     -> 7 * i + 2 + step
      [] pc = "err"      -> 7 * i + 6
      [] pc = "return"   -> 7 * i + 2
      [] pc = "returned" -> 7 * i + 3
      [] pc = "raise"    -> 7 * i + 7
      [] pc = "raised"   -> 7 * i + 8
      [] OTHER           -> 7 * i + 9

\* C3: simulate_css runs at most `cycles` cycles, hence at most 4*cycles
\* integrator calls, and terminates: every step of a run moves it forward
\* through at most 7*cycles + 9 positions; a run that never meets the
\* tolerance runs exactly `cycles` cycles and then returns.
C3_TerminatesWithinBudget ==
    /\ [](/\ i <= cycles
          /\ Len(errors) <= cycles
          /\ Len(calls) <= 4 * cycles
          /\ RunPosition <= 7 * cycles + 9
          /\ (pc = "returned" /\ \A c \in 1..Len(errors) : errors[c] >= 1000)
                => (Len(errors) = cycles /\ Len(calls) = 4 * cycles))
    /\ [][(pc \notin {"for_n", "done", "crashed"} /\ pc' \notin {"css_init", "for_n", "crashed"})
            => RunPosition' > RunPosition]_vars

\* C3 witness: a run that used up a budget of three cycles without converging
C3_Witness ==
    /\ pc = "returned"
    /\ cycles = 3
    /\ Len(calls) = 12
    /\ \A c \in 1..Len(errors) : errors[c] >= 1000

\* what C4 says of a returned run: the history is the one built cycle by
\* cycle, one entry per completed cycle in order, its last entry is the
\* residual of the last cycle run, every earlier entry is >= 1e-3, and the
\* last entry is < 1e-3 exactly when the loop was left by the break
HistoryReportsRun ==
    /\ ret.kind = "value"
    /\ ret.errors = errors
    /\ Len(ret.errors) = i
    /\ Len(calls) = 4 * i
    /\ Len(ret.errors) >= 1
    /\ \A c \in 1..Len(ret.errors) :
          /\ ret.errors[c] = RelErr(heap[calls[4 * c].xf], heap[starts[c]])
          /\ c < Len(ret.errors) => ret.errors[c] >= 1000
    /\ (Last(ret.errors) < 1000) <=> (stopped = "break")
    /\ (Last(ret.errors) >= 1000) <=> (stopped = "exhausted")

\* C4 as stated: for every cycle budget, the returned error history has one
\* entry per completed cycle and a last entry, the final residual, which is
\* < 1e-3 exactly when the run stopped by convergence.
C4_HistoryForEveryBudget == pc = "returned" => HistoryReportsRun

\* C4 amended: the same for every cycle budget of at least 1 (with a budget of
\* 0 no cycle runs and the history returned is empty: it has no last entry).
C4_HistoryForPositiveBudget == (pc = "returned" /\ cycles >= 1) => HistoryReportsRun

\* C4 witness: a run that converged in the last cycle its budget allowed
C4_Witness ==
    /\ pc = "returned"
    /\ cycles = 2
    /\ Len(ret.errors) = 2
    /\ stopped = "break"

\* C5: a failed integrator call ends the run: it is the last call of the run
\* (no retry, no later step or cycle), no cycle after the completed ones is
\* recorded, and simulate_css delivers the exception, not an (errors, x) pair.
C5_FailurePropagates ==
    \A k \in 1..Len(calls) :
        calls[k].failed =>
            /\ k = Len(calls)
            /\ pc \in {"raise", "raised", "done", "crashed"}
            /\ ret.kind # "value"
            /\ Len(errors) = calls[k].cycle
            /\ pc # "raise" => ret.kind = "exception"

\* C5 witness: the integrator failed in the second cycle of a run and the
\* exception has reached the caller
C5_Witness ==
    /\ pc = "raised"
    /\ Len(calls) > 4
    /\ Last(calls).failed
    /\ ret.kind = "exception"

\* C6: in the sweep, a failing run is caught and reported for its mesh size
\* only: when the program ends, every mesh size of N_values has been simulated.
C6_SweepSurvivesFailure ==
    (caller.kind = "main" /\ pc \in {"done", "crashed"}) =>
        \A k \in 1..Len(N_values) :
            k < n_idx \/ (k = n_idx /\ ret.kind = "exception")

\* the samples s of a boundary pressure ramp start at `from`, move
\* monotonically and end within 1/100 of the way from `to`
RampsUp(s, from, to) ==
    /\ s[1] = from
    /\ \A j \in 1..Len(s) - 1 : s[j] < s[j + 1]
    /\ s[Len(s)] <= to
    /\ 100 * (to - s[Len(s)]) <= to - from

RampsDown(s, from, to) ==
    /\ s[1] = from
    /\ \A j \in 1..Len(s) - 1 : s[j] > s[j + 1]
    /\ s[Len(s)] >= to
    /\ 100 * (s[Len(s)] - to) <= from - to

\* C7: the boundary pressure selection gives each integer step code exactly
\* one branch: 0 the pressurization ramp from P_low towards P_high, 1 the
\* constant P_high, 2 the blowdown ramp from P_high towards P_low, 3 the
\* evacuation ramp from P_low towards 0.5*P_low.
C7_OneBranchPerStepCode ==
    /\ BranchWeights(0) = [press |-> 1, high |-> 0, blow |-> 0, evac |-> 0]
    /\ BranchWeights(1) = [press |-> 0, high |-> 1, blow |-> 0, evac |-> 0]
    /\ BranchWeights(2) = [press |-> 0, high |-> 0, blow |-> 1, evac |-> 0]
    /\ BranchWeights(3) = [press |-> 0, high |-> 0, blow |-> 0, evac |-> 1]
    /\ \A k \in 1..Len(calls) :
          LET c == calls[k]
          IN  CASE c.p[1] = 0 -> RampsUp(c.P_bound, c.p[4], c.p[5])
                [] c.p[1] = 1 -> \A j \in 1..Len(c.P_bound) : c.P_bound[j] = c.p[5]
                [] c.p[1] = 2 -> RampsDown(c.P_bound, c.p[5], c.p[4])
                [] c.p[1] = 3 -> RampsDown(c.P_bound, c.p[4], c.p[4] \div 2)
                [] OTHER -> FALSE

\* C7 witness: the integrator has been called with each of the four step codes
C7_Witness ==
    /\ Len(calls) >= 4
    /\ \A t \in 0..3 : calls[t + 1].p[1] = t /\ ~calls[t + 1].failed

\* C8: every Column State of a run has length 5N, read as the five contiguous
\* N-length blocks y, P_scaled, T, q0, q1, and entry k of the right-hand side
\* is the derivative of the variable stored in entry k of the state (the
\* pressure derivative divided by the pressure scale).
C8_DerivativeBlocksMatchState ==
    /\ \A a \in 1..Len(heap) : Len(heap[a]) = 5 * N
    /\ ret.kind = "value" => Len(ret.x) = 5 * N
    /\ \A k \in 1..5 * N :
          LET st == StateEntry(k, N)
              d == RhsEntry(k, N)
          IN  /\ st.var = <<"y", "P_bar", "T", "q0", "q1">>[(k - 1) \div N + 1]
              /\ st.cell = (k - 1) % N
              /\ StoredAs(d.of).var = st.var
              /\ d.cell = st.cell
              /\ d.div = StoredAs(d.of).factor
              /\ (st.var = "P_bar") <=> (d.div = 100000)

\* C8 witness: a run on a mesh of several cells has called the integrator and
\* got a state back
C8_Witness ==
    /\ N >= 2
    /\ Len(calls) >= 1
    /\ ~calls[1].failed
    /\ Len(heap[calls[1].xf]) = 5 * N

\* C9: the initial state of simulate_css holds, in every control volume,
\* y = 0, P_scaled = 1e4 / 1e5, T = 298.15 and the isotherm equilibrium
\* loadings of (y = 0, 1e4 Pa, 298.15 K) in the q0 and q1 blocks; the N2
\* loading is the non-zero 0.0343 mol/kg (within 1%).
C9_InitialStateAtEquilibrium ==
    Len(starts) >= 1 =>
        LET x0 == heap[starts[1]]
            eq == get_isotherm_numeric(10000, 0, 2981500)
        IN  /\ heap[1] = x0
            /\ eq[2] \in 340..346
            /\ \A c \in 1..N :
                  /\ x0[c] = 0
                  /\ x0[N + c] = 1000
                  /\ x0[2 * N + c] = 2981500
                  /\ x0[3 * N + c] = eq[1]
                  /\ x0[4 * N + c] = eq[2]

\* C9 witness: the first cycle of a run on several cells has started from the
\* initial state
C9_Witness == pc = "step" /\ i = 0 /\ step = 0 /\ N >= 2 /\ x = 1

\* C10: no state is mutated in place: an array keeps its contents for as long
\* as it exists, simulate_step returns an array other than its input, x_start
\* is a separate copy of the state at the start of the cycle, and the err of a
\* cycle compares the cycle's last output with the input of its first call.
C10_StatesNeverMutated ==
    /\ [][\A a \in 1..Len(heap) : a <= Len(heap') => heap'[a] = heap[a]]_vars
    /\ [](\A k \in 1..Len(calls) : ~calls[k].failed => calls[k].xf # calls[k].x0)
    /\ [](pc \in {"step", "err"} =>
            /\ x_start # x
            /\ x_start = starts[i + 1]
            /\ Len(calls) > 4 * i => heap[x_start] = heap[calls[4 * i + 1].x0])
    /\ [](\A c \in 1..Len(errors) :
            errors[c] = RelErr(heap[calls[4 * c].xf], heap[calls[4 * c - 3].x0]))

\* C10 witness: at the end of a second cycle the state has moved away from the
\* snapshot taken at its start
C10_Witness == pc = "err" /\ i = 1 /\ heap[x] # heap[x_start]

\* the Column State four integrator calls in the order of CycleSteps lead to
\* from xv (from step k on), <<>> when one of the calls fails
RECURSIVE CycleFrom(_, _, _)
CycleFrom(ig, xv, k) ==
    IF k > Len(CycleSteps) THEN xv
    ELSE LET c == CycleSteps[k]
             p == <<c.type_id, c.duration, 0, c.P_L, c.P_H>>
         IN  IF IntegratorFails(ig, xv, p) THEN <<>>
             ELSE CycleFrom(ig, IntegratorXf(ig, xv, p), k + 1)

\* what a run delivers as a function of the integrator, the Column State xv it
\* has reached, its error history, the cycles it has completed and its budget
RECURSIVE CssRun(_, _, _, _, _)
CssRun(ig, xv, errs, k, budget) ==
    IF k >= budget THEN [kind |-> "value", errors |-> errs, x |-> xv]
    ELSE LET x2 == CycleFrom(ig, xv, 1)
         IN  IF x2 = <<>> THEN [kind |-> "exception"]
             ELSE IF BelowTolerance(RelErr(x2, xv))
             THEN [kind |-> "value", errors |-> Append(errs, RelErr(x2, xv)),
                   x |-> x2]
             ELSE CssRun(ig, x2, Append(errs, RelErr(x2, xv)), k + 1, budget)

\* C11: with a deterministic integrator the state and the err a cycle
\* produces are a function of the Column State entering that cycle alone (not
\* of the cycle index, the history or earlier cycles), and what a run of
\* simulate_css returns is a function of the integrator, N and the cycle
\* budget alone, so two runs with the same N and budget return the same error
\* history and the same final state.
C11_CycleDependsOnEnteringState ==
    /\ AtCycleBoundary =>
          \A c \in 1..Len(errors) :
              LET entering == heap[starts[c]]
                  leaving == IF c < Len(starts) THEN heap[starts[c + 1]]
                             ELSE heap[x]
              IN  /\ leaving = CycleFrom(integrator, entering, 1)
                  /\ errors[c] = RelErr(CycleFrom(integrator, entering, 1), entering)
    /\ pc \in {"returned", "raised"} =>
          ret = CssRun(integrator, InitState(N), <<>>, 0, cycles)

\* a run has returned after two cycles that changed the state by different
\* amounts
C11_Witness ==
    /\ pc = "returned"
    /\ Len(ret.errors) >= 2
    /\ ret.errors[1] # ret.errors[2]
    /\ ret.errors[2] > 0
    /\ ret.x # InitState(N)

\* values the third entry of the parameter vector is varied over
ReservedValues == {1, 7 * FX, P_scale}

\* C12: the parameter vector simulate_step passes the integrator has five
\* entries [step_type, duration, reserved, P_low, P_high] with the reserved
\* third entry 0, and the right-hand side of build_model reads entries 0, 1, 3
\* and 4 only: whatever the third entry holds, the ode has the same value.
C12_ReservedEntryUnused ==
    f_call.kind = "ode" =>
        /\ Len(f_call.u) = 5
        /\ f_call.u[3] = 0
        /\ f_call.u[1] \in 0..3
        /\ f_call.u[2] = design[f_call.u[1] + 1]
        /\ \A r \in ReservedValues :
              /\ OdeIs(f_call.x, f_call.n, [f_call.u EXCEPT ![3] = r], f_call.tau,
                       f_call.rhs)
              /\ P_bound([f_call.u EXCEPT ![3] = r], f_call.tau) = f_call.P_bound

\* the ode of an evacuation step has been evaluated and is not zero
C12_Witness ==
    /\ f_call.kind = "ode"
    /\ f_call.u = <<3, design[4], 0, 10000, 100000>>
    /\ f_call.tau > 0
    /\ \E k \in 1..Len(f_call.rhs) : f_call.rhs[k] # 0

C14_FeedValuesAtBothEnds ==
    f_call.kind = "ode" =>
        /\ f_call.v_face[1] >= FX =>
              /\ f_call.cv[1].yL = y_feed
              /\ f_call.cv[1].TL = T_ref
        /\ f_call.v_face[f_call.n + 1] <= -FX =>
              /\ f_call.cv[f_call.n].yR = y_feed
              /\ f_call.cv[f_call.n].TR = T_ref

\* C14: only the left face of cell 0 takes the feed values: they are its face
\* values when the inlet velocity is inbound at 1 m/s or more, and its face
\* values lie at least half way from the cell value to the feed value when the
\* inlet velocity is inbound at all.  The right face of cell N-1 takes the
\* cell's own mole fraction and temperature whatever the outlet velocity is
\* (to the resolution of the blend).
C14_FeedValuesAtInletOnly ==
    f_call.kind = "ode" =>
        LET first == f_call.cv[1]
            last == f_call.cv[f_call.n]
            y_first == y_at(f_call.x, f_call.n, 1)
            T_first == T_at(f_call.x, f_call.n, 1)
        IN  /\ f_call.v_face[1] >= FX =>
                  /\ first.yL = y_feed
                  /\ first.TL = T_ref
            /\ f_call.v_face[1] > 0 =>
                  /\ Abs(first.yL - y_feed) <= Abs(first.yL - y_first) + 1
                  /\ Abs(first.TL - T_ref) <= Abs(first.TL - T_first) + 1
            /\ Abs(last.yR - y_at(f_call.x, f_call.n, f_call.n)) <= 1
            /\ Abs(last.TR - T_at(f_call.x, f_call.n, f_call.n)) <= 1

\* gas enters at both ends at more than 1 m/s, into end cells whose mole
\* fraction and temperature are not the feed's
C14_Witness ==
    /\ f_call.kind = "ode"
    /\ f_call.n >= 2
    /\ f_call.v_face[1] >= FX
    /\ f_call.v_face[f_call.n + 1] <= -FX
    /\ y_at(f_call.x, f_call.n, 1) # y_feed
    /\ y_at(f_call.x, f_call.n, f_call.n) # y_feed
    /\ T_at(f_call.x, f_call.n, f_call.n) # T_ref
    /\ f_call.cv[1].yL = y_feed
    /\ f_call.cv[f_call.n].yR = y_at(f_call.x, f_call.n, f_call.n)

\* C15: the boundary face velocities are selected by the step type: step 0
\* has v_in at face 0 and 0 at face N, step 1 has 1.0 and v_out, step 2 has 0
\* and v_out, step 3 has v_in and 0; one pair per step type.
C15_BoundaryVelocityPerStep ==
    f_call.kind = "ode" =>
        LET st == f_call.u[1]
        IN  /\ st \in 0..3
            /\ f_call.v_in = v_in(f_call.x, f_call.n, f_call.u, f_call.tau)
            /\ f_call.v_out = v_out(f_call.x, f_call.n, f_call.u, f_call.tau)
            /\ f_call.v_face[1] = <<f_call.v_in, FX, 0, f_call.v_in>>[st + 1]
            /\ f_call.v_face[f_call.n + 1]
                  = <<0, f_call.v_out, f_call.v_out, 0>>[st + 1]

\* an evacuation step whose boundary pressure differs from the pressure of
\* both end cells: the inlet face carries v_in, the outlet face is closed
C15_Witness ==
    /\ f_call.kind = "ode"
    /\ f_call.u[1] = 3
    /\ f_call.v_in # 0
    /\ f_call.v_out # 0
    /\ f_call.v_in # f_call.v_out
    /\ f_call.v_face[1] = f_call.v_in
    /\ f_call.v_face[f_call.n + 1] = 0

\* C16: every face velocity, interior or boundary, has magnitude at most
\* v_max = 5, for every Column State and every step type.
C16_FaceVelocityBounded ==
    f_call.kind = "ode" =>
        /\ Len(f_call.v_face) = f_call.n + 1
        /\ \A f \in 1..f_call.n + 1 : Abs(f_call.v_face[f]) <= v_max

\* an interior face and a boundary face both carry the maximum velocity
C16_Witness ==
    /\ f_call.kind = "ode"
    /\ f_call.n >= 2
    /\ Abs(f_call.v_face[2]) = v_max
    /\ \/ Abs(f_call.v_face[1]) = v_max
       \/ Abs(f_call.v_face[f_call.n + 1]) = v_max

\* every cell of the evaluated state holds the isotherm equilibrium loadings
LoadingsAtEquilibrium ==
    \A c \in 1..f_call.n :
        LET q == get_isotherm(C_total_at(f_call.x, f_call.n, c),
                              y_at(f_call.x, f_call.n, c),
                              T_at(f_call.x, f_call.n, c))
        IN  /\ q0_at(f_call.x, f_call.n, c) = q[1]
            /\ q1_at(f_call.x, f_call.n, c) = q[2]

\* C17: when every cell's loadings equal the isotherm equilibrium the q0 and
\* q1 blocks of the right-hand side are zero, and when in addition every face
\* velocity is zero the y, P and T blocks are zero as well.
C17_NoDriftAtEquilibrium ==
    (f_call.kind = "ode" /\ LoadingsAtEquilibrium) =>
        /\ \A k \in 1..5 * f_call.n :
              RhsEntry(k, f_call.n).of \in {"q0", "q1"} => f_call.rhs[k] = 0
        /\ (\A f \in 1..f_call.n + 1 : f_call.v_face[f] = 0) =>
              \A k \in 1..5 * f_call.n : f_call.rhs[k] = 0

\* a column at equilibrium with CO2 loaded, at the boundary pressure and with
\* closed or balanced boundaries: no face moves gas
C17_Witness ==
    /\ f_call.kind = "ode"
    /\ f_call.n >= 2
    /\ LoadingsAtEquilibrium
    /\ \E c \in 1..f_call.n : q0_at(f_call.x, f_call.n, c) > 0
    /\ \A f \in 1..f_call.n + 1 : f_call.v_face[f] = 0
    /\ \A k \in 1..5 * f_call.n : f_call.rhs[k] = 0

\* C18: at every time point the contact forces on b1, b2 and b3 sum to zero
\* (each pairwise force enters one ball with a minus sign and its neighbour
\* with a plus sign), each pairwise force is 0 when the overlap 2*radius -
\* distance is <= 0 and k_contact*overlap otherwise, and b1 and b3 exert no
\* force on each other directly: the force on b1 is the b1-b2 contact alone
\* and the force on b3 the b2-b3 contact alone, even when b1 and b3 overlap.
C18_ContactForcesBalance ==
    ode_vel.kind = "constraints" =>
        LET xs == ode_vel.x
            overlap_left == 2 * radius - (xs["b2"] - xs["b1"])
            overlap_right == 2 * radius - (xs["b3"] - xs["b2"])
        IN  /\ ode_vel.force["b1"] + ode_vel.force["b2"] + ode_vel.force["b3"] = 0
            /\ ode_vel.contact.left
                  = IF overlap_left <= 0 THEN 0 ELSE k_contact * overlap_left
            /\ ode_vel.contact.right
                  = IF overlap_right <= 0 THEN 0 ELSE k_contact * overlap_right
            /\ ode_vel.force["b1"] = -ode_vel.contact.left
            /\ ode_vel.force["b2"] = ode_vel.contact.left - ode_vel.contact.right
            /\ ode_vel.force["b3"] = ode_vel.contact.right
            /\ \A b \in Balls : mass * ode_vel.dvdt[b] = ode_vel.force[b]

\* both contacts are active with different forces while b1 and b3 are closer
\* than two radii
C18_Witness ==
    /\ ode_vel.kind = "constraints"
    /\ ode_vel.contact.left > 0
    /\ ode_vel.contact.right > 0
    /\ ode_vel.contact.left # ode_vel.contact.right
    /\ ode_vel.x["b3"] - ode_vel.x["b1"] < 2 * radius
    /\ ode_vel.x["b3"] > ode_vel.x["b1"]

\* how often reaction r occurs in a list of reactions, from its k-th entry on
RECURSIVE Occurrences(_, _, _)
Occurrences(r, list, k) ==
    IF k > Len(list) THEN 0
    ELSE (IF list[k] = r THEN 1 ELSE 0) + Occurrences(r, list, k + 1)

\* the sum of the entries of a sequence of numbers, from its k-th entry on
RECURSIVE SumFrom(_, _)
SumFrom(q, k) == IF k > Len(q) THEN 0 ELSE q[k] + SumFrom(q, k + 1)

\* C19: each of the reactions r1..r15 is a consumption term of exactly one
\* lump, its reactant lump, and a generation term of exactly one lump; so at
\* every riser position z > 0 the six net rates sum to zero and so do the six
\* mass-fraction derivatives (each is a product rounded to the resolution, so
\* their sum is below one unit per lump).
C19_LumpRatesBalance ==
    /\ \A j \in 1..Len(Rxn) :
          /\ SumFrom([k \in 1..Len(Lumps) |->
                        Occurrences(Rxn[j], cons_of(Lumps[k]), 1)], 1) = 1
          /\ Occurrences(Rxn[j], cons_of(ReactantOf(Rxn[j])), 1) = 1
          /\ SumFrom([k \in 1..Len(Lumps) |->
                        Occurrences(Rxn[j], gen_of(Lumps[k]), 1)], 1) = 1
          /\ Occurrences(Rxn[j], gen_of(ReactantOf(Rxn[j])), 1) = 0
    /\ mb_cons.kind = "constraints" =>
          /\ mb_cons.z > 0
          /\ Len(mb_cons.rate_net) = 6
          /\ SumFrom(mb_cons.rate_net, 1) = 0
          /\ Abs(SumFrom(mb_cons.dy_dz, 1)) < Len(Lumps)

\* a riser position where all fifteen reactions run: VGO is consumed, coke is
\* formed
C19_Witness ==
    /\ mb_cons.kind = "constraints"
    /\ \A j \in 1..Len(Rxn) : mb_cons.rate[Rxn[j]] > 0
    /\ mb_cons.dy_dz[1] < 0
    /\ mb_cons.dy_dz[6] > 0
    /\ \E k \in 2..5 : mb_cons.dy_dz[k] # 0

====
